---- MODULE Spec2Model ----
(***************************************************************************)
(* Model of the multi-backend rate limiter of main.py: the module-level   *)
(* backend initialisation, check_rate_limit and its three stores (Redis   *)
(* sorted set, rate_limits table, in-memory dict).                         *)
(*                                                                         *)
(* Each worker is one server process: its handlers are coroutines that    *)
(* call check_rate_limit synchronously, so one process runs one call at a *)
(* time and owns its own rate_limit_storage; the Redis server and the     *)
(* database are shared by the workers and the steps of their calls        *)
(* interleave there.                                                       *)
(***************************************************************************)
EXTENDS Integers, Sequences, FiniteSets, TLC

\* ---------------------------------------------------------------- bounds
MaxTime == 3
MaxCalls == 4

\* RATE_LIMIT_REQUESTS / RATE_LIMIT_WINDOW are read from the environment
\* (main.py:126-127); the model runs them at small values.
RATE_LIMIT_REQUESTS == 1
RATE_LIMIT_WINDOW == 2

Workers == {1, 2}    \* server processes
Keys == {1, 2}       \* client addresses
Times == 0..MaxTime

VARIABLES
    env,                 \* REDIS_URL / DATABASE_URL and what startup met
    load,                \* the processes deployed and the clients that call
    redis_client,        \* module global: TRUE when not None
    SessionLocal,        \* module global: TRUE when not None
    now,                 \* wall clock, time.time()
    redis_zset,          \* Redis: key "rate_limit:<ip>" -> members (score = member)
    redis_expire_at,     \* Redis: expiry deadline of the key, -1 when none
    rate_limits,         \* database table: rows [id, client_ip, timestamp]
    open_sessions,       \* database sessions opened and not yet closed
    rate_limit_storage,  \* per process: client_ip -> list of timestamps
    req,                 \* per worker: the check_rate_limit call in progress
    calls,               \* number of calls started
    admitted,            \* history: client_ip -> timestamp -> calls that returned True
    failed_stores,       \* history: per worker, stores that raised in some call
    db_engine,           \* module global: TRUE when not None
    reachable,           \* whether the Redis server / the database answer now
    health,              \* the last reply of GET /health
    request,             \* request metadata given to get_client_ip
    client_key,          \* what get_client_ip returned for it
    http,                \* the endpoint handler in progress
    api_calls,           \* history: calls of call_cerebras_api made
    ui_history,          \* module global: the list of generated UIs
    scn,                 \* a run of calls made one after the other on one store
    thread               \* per thread: its check_rate_limit_memory call

vars == <<env, load, redis_client, SessionLocal, now, redis_zset, redis_expire_at,
          rate_limits, open_sessions, rate_limit_storage, req, calls,
          admitted, failed_stores, db_engine, reachable, health, request,
          client_key, http, api_calls, ui_history, scn, thread>>

\* the state that check_rate_limit and its stores never touch
outside == <<db_engine, reachable, health, request, client_key, http,
             api_calls, ui_history, scn, thread>>

\* ------------------------------------------------------- startup (71-98)
StartupOutcome == {"ok", "raises"}

\* the except block without `SessionLocal = None`: the session factory
\* made before create_all raised stays in use
InitSessionLocal_NoReset(url, outcome) == url

\* if DATABASE_URL: try create_engine, sessionmaker, create_all
\* except: db_engine = None; SessionLocal = None
InitSessionLocal(url, outcome) ==
    IF url THEN outcome = "ok" ELSE FALSE

\* the except block without `redis_client = None`: a client whose ping
\* failed stays in use
InitRedisClient_NoReset(url, outcome) == url

\* db_engine = None; if DATABASE_URL: try create_engine ... except: None
InitDbEngine(url, outcome) ==
    IF url THEN outcome = "ok" ELSE FALSE

\* redis_client = None; if REDIS_URL: try from_url, ping except: None
InitRedisClient(url, outcome) ==
    IF url THEN outcome = "ok" ELSE FALSE

\* ------------------------------------------------ in-memory store (214-229)
\* the list comprehension: keep req_time when current_time - req_time < WINDOW
MemoryFilter(list, current_time, window) ==
    SelectSeq(list, LAMBDA req_time : current_time - req_time < window)

\* a limiter that records the call before it tests the length
MemoryCheck_AppendAlways(list, current_time, limit, window) ==
    LET kept == MemoryFilter(list, current_time, window)
    IN  [list |-> Append(kept, current_time), allowed |-> Len(kept) < limit]

\* check_rate_limit_memory on one client's list: the list it leaves and what it returns
MemoryCheck(list, current_time, limit, window) ==
    LET kept == MemoryFilter(list, current_time, window)
    IN  IF Len(kept) >= limit
        THEN [list |-> kept, allowed |-> FALSE]
        ELSE [list |-> Append(kept, current_time), allowed |-> TRUE]

\* ------------------------------------------------------ Redis (145-169)
\* zremrangebyscore(key, 0, current_time - WINDOW): both ends inclusive
ZRemRangeByScore(zset, lo, hi) == {m \in zset : ~(lo <= m /\ m <= hi)}

\* the pipeline: zremrangebyscore, zcard, zadd {str(t): t}, expire;
\* zadd runs whatever zcard returned, and a member that is already there
\* is only re-scored
RedisPipeline(zset, current_time, window) ==
    LET kept == ZRemRangeByScore(zset, 0, current_time - window)
    IN  [zset |-> kept \cup {current_time}, zcard |-> Cardinality(kept)]

\* return current_count < RATE_LIMIT_REQUESTS
RedisAllowed(current_count, limit) == current_count < limit

\* --------------------------------------------------- database (176-211)
\* filter(client_ip == ip, timestamp < cutoff_time).delete(): the rows it marks
DbExpired(table, ip, current_time, window) ==
    {r \in table : r.client_ip = ip /\ r.timestamp < current_time - window}

\* the count query without its client_ip filter
DbCount_AnyClient(table, ip, deleted) ==
    Cardinality({r \in table : r.id \notin deleted})

\* filter(client_ip == ip).count() inside the session: the committed rows
\* less the ones this session has deleted
DbCount(table, ip, deleted) ==
    Cardinality({r \in table : r.client_ip = ip /\ r.id \notin deleted})

\* the limit test written with `>`: one call too many passes
DbRejects_Above(current_count, limit) == current_count > limit

\* if current_count >= RATE_LIMIT_REQUESTS: return False
DbRejects(current_count, limit) == current_count >= limit

\* db.add(new_record); db.commit(): the delete and the insert become visible
DbCommit(table, deleted, id, ip, current_time) ==
    {r \in table : r.id \notin deleted}
        \cup {[id |-> id, client_ip |-> ip, timestamp |-> current_time]}

\* the primary key of a new row (64): only its distinctness matters, so the
\* model takes the least key that no row and no open session's delete holds
NewId(table, pending) ==
    LET used == {r.id : r \in table} \cup pending
    IN  CHOOSE i \in 1..(Cardinality(used) + 1) :
            i \notin used /\ \A j \in 1..(i - 1) : j \in used

\* a selection that remembers failures: a store that raised is skipped
Dispatch_Sticky(rc, sl) ==
    IF rc /\ \A w \in Workers : "redis" \notin failed_stores[w] THEN "redis"
    ELSE IF sl /\ \A w \in Workers : "database" \notin failed_stores[w]
         THEN "database"
    ELSE "memory"

\* ------------------------------------------------------ dispatch (137-142)
Dispatch(rc, sl) ==
    IF rc THEN "redis" ELSE IF sl THEN "database" ELSE "memory"

\* ------------------------------------------------------------------ Init
\* n flips with every call the worker starts, so that a repeated call shows
Idle == [pc |-> "idle", n |-> 0, client_ip |-> 0, current_time |-> 0,
         result |-> FALSE, deleted |-> {}, path |-> <<>>]

\* one process serving two clients, or two processes serving one client
Loads == {[workers |-> {1}, clients |-> Keys, budget |-> MaxCalls],
          [workers |-> Workers, clients |-> {1}, budget |-> MaxCalls - 1]}

\* the values of the state outside the limiter while nothing has used it
None == <<"None">>
NoHealth == [redis_status |-> "none", database_status |-> "none",
             storage_type |-> "none"]
NoRequest == [forwarded_for |-> None, real_ip |-> None, client |-> None]
HttpIdle == [pc |-> "idle", endpoint |-> "none", status |-> 0, n |-> 0,
             client_ip |-> 0, valid |-> TRUE]
NoScenario == [backend |-> "none", times |-> <<>>, results |-> <<>>]
Threads == {1, 2}
ThreadIdle == [pc |-> "idle", client_ip |-> 0, current_time |-> 0,
               kept |-> <<>>, result |-> FALSE]

\* what the environment holds and what the startup code met
Envs == {e \in [REDIS_URL : BOOLEAN, redis : StartupOutcome,
                DATABASE_URL : BOOLEAN, db : StartupOutcome] :
            /\ (~e.REDIS_URL => e.redis = "ok")
            /\ (~e.DATABASE_URL => e.db = "ok")}

\* the module-level code has run in environment e (47-98)
Startup(e) ==
    /\ env = e
    /\ redis_client = InitRedisClient(e.REDIS_URL, e.redis)
    /\ SessionLocal = InitSessionLocal(e.DATABASE_URL, e.db)
    /\ db_engine = InitDbEngine(e.DATABASE_URL, e.db)

\* the stores are empty and no call has been made
StoresEmpty ==
    /\ now = 0
    /\ redis_zset = [k \in Keys |-> {}]
    /\ redis_expire_at = [k \in Keys |-> -1]
    /\ rate_limits = {}
    /\ open_sessions = 0
    /\ rate_limit_storage = [w \in Workers |-> [k \in Keys |-> <<>>]]
    /\ req = [w \in Workers |-> Idle]
    /\ calls = 0
    /\ admitted = [k \in Keys |-> [t \in Times |-> 0]]
    /\ failed_stores = [w \in Workers |-> {}]

Init ==
    /\ \E e \in Envs : Startup(e)
    /\ load \in Loads
    /\ StoresEmpty
    /\ reachable = [redis |-> TRUE, db |-> TRUE]
    /\ health = NoHealth
    /\ request = NoRequest
    /\ client_key = None
    /\ http = HttpIdle
    /\ api_calls = 0
    /\ ui_history = <<>>
    /\ scn = NoScenario
    /\ thread = [i \in Threads |-> ThreadIdle]

\* ------------------------------------------------------------ the clock
\* time passes; a Redis key whose expire deadline is reached is dropped
Tick ==
    /\ now < MaxTime
    /\ now' = now + 1
    /\ redis_zset' = [k \in Keys |->
            IF redis_expire_at[k] # -1 /\ redis_expire_at[k] <= now + 1
            THEN {} ELSE redis_zset[k]]
    /\ redis_expire_at' = [k \in Keys |->
            IF redis_expire_at[k] # -1 /\ redis_expire_at[k] <= now + 1
            THEN -1 ELSE redis_expire_at[k]]
    /\ UNCHANGED <<env, load, redis_client, SessionLocal, rate_limits, open_sessions,
                   rate_limit_storage, req, calls, admitted, failed_stores>>
    /\ UNCHANGED outside

\* ------------------------------------------------------- shared pieces
\* the call of worker w returns `allowed`, decided after consulting `path`
Return(w, allowed, path) ==
    /\ req' = [req EXCEPT ![w] = [pc |-> "done", n |-> @.n,
                                  client_ip |-> @.client_ip,
                                  current_time |-> @.current_time,
                                  result |-> allowed, deleted |-> {},
                                  path |-> path]]
    /\ admitted' = IF allowed
                   THEN [admitted EXCEPT
                            ![req[w].client_ip][req[w].current_time] = @ + 1]
                   ELSE admitted

\* what a store's client can raise
ErrorKinds == {"ConnectionError", "TimeoutError"}

\* `except redis.ConnectionError`: a narrower except clause
ExceptCatches_ConnectionOnly(kind) == kind = "ConnectionError"

\* `except Exception` (171, 209) catches whatever the store raised
ExceptCatches(kind) == TRUE

\* an except block that lets the request through without asking memory
ExceptFallback_FailOpen(list, current_time, limit, window) ==
    [list |-> list, allowed |-> TRUE]

\* the body of the except blocks (172-173, 210-211): log, then
\* return check_rate_limit_memory(client_ip, current_time)
ExceptFallback(list, current_time, limit, window) ==
    MemoryCheck(list, current_time, limit, window)

\* the store consulted by `call` of worker w raised `kind`: the except block
\* answers from the process's own memory; an exception it did not catch
\* would leave check_rate_limit
Fallback(w, call, store, kind) ==
    LET ip == call.client_ip
        m == ExceptFallback(rate_limit_storage[w][ip], call.current_time,
                            RATE_LIMIT_REQUESTS, RATE_LIMIT_WINDOW)
    IN  /\ failed_stores' = [failed_stores EXCEPT ![w] = @ \cup {store}]
        /\ IF ExceptCatches(kind)
           THEN /\ rate_limit_storage' =
                        [rate_limit_storage EXCEPT ![w][ip] = m.list]
                /\ req' = [req EXCEPT ![w] =
                        [call EXCEPT !.pc = "done", !.result = m.allowed,
                                     !.deleted = {},
                                     !.path = Append(call.path, "memory")]]
                /\ admitted' = IF m.allowed
                               THEN [admitted EXCEPT
                                        ![ip][call.current_time] = @ + 1]
                               ELSE admitted
           ELSE /\ req' = [req EXCEPT ![w] =
                        [call EXCEPT !.pc = "raised", !.deleted = {}]]
                /\ UNCHANGED <<rate_limit_storage, admitted>>

\* ------------------------------------------------ check_rate_limit (133-142)
\* a request for client ip arrives at worker w: read the clock and pick the
\* store.  What runs inside the process before the first round trip is part
\* of this step: the in-memory store answers at once, the Redis branch
\* queues its pipeline, the database branch makes its session (179), and a
\* SessionLocal() that raises goes straight to the except block.
check_rate_limit(w, ip) ==
    /\ w \in load.workers /\ ip \in load.clients
    /\ req[w].pc \in {"idle", "done", "raised"}
    /\ calls < load.budget
    /\ calls' = calls + 1
    /\ LET store == Dispatch(redis_client, SessionLocal)
           call == [pc |-> store, n |-> 1 - req[w].n, client_ip |-> ip,
                    current_time |-> now, result |-> FALSE, deleted |-> {},
                    path |-> <<store>>]
       IN  \/ /\ store = "memory"
              /\ LET m == MemoryCheck(rate_limit_storage[w][ip], now,
                                      RATE_LIMIT_REQUESTS, RATE_LIMIT_WINDOW)
                 IN  /\ rate_limit_storage' =
                            [rate_limit_storage EXCEPT ![w][ip] = m.list]
                     /\ req' = [req EXCEPT ![w] =
                            [call EXCEPT !.pc = "done", !.result = m.allowed]]
                     /\ admitted' = IF m.allowed
                                    THEN [admitted EXCEPT ![ip][now] = @ + 1]
                                    ELSE admitted
              /\ UNCHANGED <<open_sessions, failed_stores>>
           \/ /\ store = "redis"
              /\ req' = [req EXCEPT ![w] = call]
              /\ UNCHANGED <<rate_limit_storage, admitted, open_sessions,
                             failed_stores>>
           \/ /\ store = "database"
              /\ req' = [req EXCEPT ![w] = [call EXCEPT !.pc = "db_delete"]]
              /\ open_sessions' = open_sessions + 1
              /\ UNCHANGED <<rate_limit_storage, admitted, failed_stores>>
           \/ /\ store = "database"
              /\ \E kind \in ErrorKinds : Fallback(w, call, store, kind)
              /\ UNCHANGED open_sessions
    /\ UNCHANGED <<env, load, redis_client, SessionLocal, now, redis_zset,
                   redis_expire_at, rate_limits>>
    /\ UNCHANGED outside

\* ------------------------------------------- check_rate_limit_redis (145-173)
\* pipe.execute() succeeds: the four commands ran as one unit on the server
redis_execute(w) ==
    /\ req[w].pc = "redis"
    /\ LET ip == req[w].client_ip
           p == RedisPipeline(redis_zset[ip], req[w].current_time,
                              RATE_LIMIT_WINDOW)
       IN  /\ redis_zset' = [redis_zset EXCEPT ![ip] = p.zset]
           /\ redis_expire_at' = [redis_expire_at EXCEPT
                                     ![ip] = now + RATE_LIMIT_WINDOW]
           /\ Return(w, RedisAllowed(p.zcard, RATE_LIMIT_REQUESTS), req[w].path)
    /\ UNCHANGED <<env, load, redis_client, SessionLocal, now, rate_limits,
                   open_sessions, rate_limit_storage, calls, failed_stores>>
    /\ UNCHANGED outside

\* pipe.execute() raises, before the server ran the commands or after it
\* did (the reply was lost): the except block answers from memory
redis_error(w) ==
    /\ req[w].pc = "redis"
    /\ \E ran \in BOOLEAN :
         LET ip == req[w].client_ip
             p == RedisPipeline(redis_zset[ip], req[w].current_time,
                                RATE_LIMIT_WINDOW)
         IN  /\ redis_zset' = IF ran THEN [redis_zset EXCEPT ![ip] = p.zset]
                              ELSE redis_zset
             /\ redis_expire_at' =
                    IF ran THEN [redis_expire_at EXCEPT
                                    ![ip] = now + RATE_LIMIT_WINDOW]
                    ELSE redis_expire_at
    /\ \E kind \in ErrorKinds : Fallback(w, req[w], "redis", kind)
    /\ UNCHANGED <<env, load, redis_client, SessionLocal, now, rate_limits,
                   open_sessions, calls>>
    /\ UNCHANGED outside

\* ---------------------------------------- check_rate_limit_database (176-211)
\* a finally block that leaves the session open
SessionClose_Leak(sessions) == sessions

\* `finally: db.close()` (206-207): runs on return False, on return True and
\* when a query or the commit raised
SessionClose(sessions) == sessions - 1

\* the delete query: its rows are gone for this session only, until commit
db_delete(w) ==
    /\ req[w].pc = "db_delete"
    /\ req' = [req EXCEPT ![w].pc = "db_count",
                          ![w].deleted = {r.id : r \in
                              DbExpired(rate_limits, req[w].client_ip,
                                        req[w].current_time, RATE_LIMIT_WINDOW)}]
    /\ UNCHANGED <<env, load, redis_client, SessionLocal, now, redis_zset,
                   redis_expire_at, rate_limits, open_sessions,
                   rate_limit_storage, calls, admitted, failed_stores>>
    /\ UNCHANGED outside

\* the count query and the limit test; on rejection `return False` runs the
\* finally block, db.close() rolls the delete back
db_count(w) ==
    /\ req[w].pc = "db_count"
    /\ IF DbRejects(DbCount(rate_limits, req[w].client_ip, req[w].deleted),
                    RATE_LIMIT_REQUESTS)
       THEN /\ open_sessions' = SessionClose(open_sessions)
            /\ Return(w, FALSE, req[w].path)
       ELSE /\ req' = [req EXCEPT ![w].pc = "db_commit"]
            /\ UNCHANGED <<open_sessions, admitted>>
    /\ UNCHANGED <<env, load, redis_client, SessionLocal, now, redis_zset,
                   redis_expire_at, rate_limits, rate_limit_storage, calls,
                   failed_stores>>
    /\ UNCHANGED outside

\* the keys of the rows that sessions still open have deleted
PendingDeletes == UNION {req[v].deleted : v \in Workers}

\* db.add, db.commit, return True; finally db.close()
db_commit(w) ==
    /\ req[w].pc = "db_commit"
    /\ rate_limits' = DbCommit(rate_limits, req[w].deleted,
                               NewId(rate_limits, PendingDeletes),
                               req[w].client_ip, req[w].current_time)
    /\ open_sessions' = SessionClose(open_sessions)
    /\ Return(w, TRUE, req[w].path)
    /\ UNCHANGED <<env, load, redis_client, SessionLocal, now, redis_zset,
                   redis_expire_at, rate_limit_storage, calls, failed_stores>>
    /\ UNCHANGED outside

\* a query or the commit raises: the finally block closes the session, the
\* except block answers from memory; a commit that raises may have reached
\* the database or not
db_error(w) ==
    /\ req[w].pc \in {"db_delete", "db_count", "db_commit"}
    /\ open_sessions' = SessionClose(open_sessions)
    /\ \E ran \in BOOLEAN :
         rate_limits' = IF ran /\ req[w].pc = "db_commit"
                        THEN DbCommit(rate_limits, req[w].deleted,
                               NewId(rate_limits, PendingDeletes),
                                      req[w].client_ip, req[w].current_time)
                        ELSE rate_limits
    /\ \E kind \in ErrorKinds : Fallback(w, req[w], "database", kind)
    /\ UNCHANGED <<env, load, redis_client, SessionLocal, now, redis_zset,
                   redis_expire_at, calls>>
    /\ UNCHANGED outside

\* a Redis or database round trip never completes: neither client is given
\* a timeout (74, 88), so the call waits with nothing to wake it
backend_hang(w) ==
    /\ req[w].pc \in {"redis", "db_delete", "db_count", "db_commit"}
    /\ req' = [req EXCEPT ![w].pc = "blocked"]
    /\ UNCHANGED <<env, load, redis_client, SessionLocal, now, redis_zset,
                   redis_expire_at, rate_limits, open_sessions,
                   rate_limit_storage, calls, admitted, failed_stores>>
    /\ UNCHANGED outside

Next ==
    \/ Tick
    \/ \E w \in Workers, ip \in Keys : check_rate_limit(w, ip)
    \/ \E w \in Workers : redis_execute(w)
    \/ \E w \in Workers : redis_error(w)
    \/ \E w \in Workers : db_delete(w)
    \/ \E w \in Workers : db_count(w)
    \/ \E w \in Workers : db_commit(w)
    \/ \E w \in Workers : db_error(w)
    \/ \E w \in Workers : backend_hang(w)

Spec == Init /\ [][Next]_vars

\* the replies of a store that answers are processed: a call waiting for
\* Redis or the database goes on once the reply (or the error) is there
Reply(w) ==
    \/ redis_execute(w) \/ redis_error(w)
    \/ db_delete(w) \/ db_count(w) \/ db_commit(w) \/ db_error(w)

FairSpec == Spec /\ \A w \in Workers : WF_vars(Reply(w))

TypeOK ==
    /\ now \in Times
    /\ redis_client \in BOOLEAN /\ SessionLocal \in BOOLEAN
    /\ \A k \in Keys : redis_zset[k] \subseteq Times
    /\ open_sessions \in 0..Cardinality(Workers)
    /\ calls \in 0..MaxCalls

\* ------------------------------------------------------ reading a step
RECURSIVE SumOver(_, _)
SumOver(f, S) ==
    IF S = {} THEN 0
    ELSE LET x == CHOOSE y \in S : TRUE IN f[x] + SumOver(f, S \ {x})

\* calls for k that returned True with a timestamp in lo..hi
AdmittedIn(k, lo, hi) ==
    SumOver(admitted[k], {s \in Times : lo <= s /\ s <= hi})

Acts(w) == req'[w] # req[w]
Starts(w) == req'[w].n # req[w].n
Returns(w) == Acts(w) /\ req'[w].pc = "done"
DecidedBy(r) == r.path[Len(r.path)]
RowsOf(table, k) == {r \in table : r.client_ip = k}

\* the store the startup code selects, from what it was given and met
StartupChoice ==
    IF env.REDIS_URL /\ env.redis = "ok" THEN "redis"
    ELSE IF env.DATABASE_URL /\ env.db = "ok" THEN "database"
    ELSE "memory"

\* ---------------------------------------------------------------- claims

\* C1: in one process, of the calls for a key whose timestamps lie within
\* one interval of RATE_LIMIT_WINDOW seconds at most RATE_LIMIT_REQUESTS
\* return True, whichever store is configured and also when a store fails
\* during the sequence.
C1_AtMostLimitPerWindow ==
    load.workers = {1} =>
        \A k \in Keys, t \in Times :
            AdmittedIn(k, t, t + RATE_LIMIT_WINDOW - 1) <= RATE_LIMIT_REQUESTS

\* C2: a call that returns False records no entry: the step in which it
\* returns adds nothing to the Redis set, the table or the memory list of
\* its key (stated for the calls whose store did not fail).
C2_RejectedRecordsNothing ==
    [][\A w \in Workers :
        (Returns(w) /\ ~req'[w].result /\ Len(req'[w].path) = 1) =>
            LET k == req'[w].client_ip
            IN  /\ redis_zset'[k] \subseteq redis_zset[k]
                /\ RowsOf(rate_limits', k) \subseteq RowsOf(rate_limits, k)
                /\ Len(rate_limit_storage'[w][k])
                       <= Len(rate_limit_storage[w][k])]_vars

\* C3: sliding-window recovery: once a key has used its quota, a call made
\* when fewer than RATE_LIMIT_REQUESTS admitted entries of the key are
\* still within RATE_LIMIT_WINDOW of it returns True, however many calls
\* were rejected in between (stated for one process, whose calls run one
\* after the other, while no store has failed).
C3_SlidingWindowRecovery ==
    [][\A w \in Workers :
        LET k == req'[w].client_ip
            t == req'[w].current_time
        IN  (/\ Returns(w)
             /\ load.workers = {1}
             /\ \A v \in Workers : failed_stores'[v] = {}
             /\ AdmittedIn(k, 0, MaxTime) >= RATE_LIMIT_REQUESTS
             /\ AdmittedIn(k, t - RATE_LIMIT_WINDOW, MaxTime)
                    < RATE_LIMIT_REQUESTS)
            => req'[w].result]_vars

\* the entries of key k that the store deciding a call of worker w holds
OwnEntries(w, k, store) ==
    CASE store = "redis" -> Cardinality(redis_zset[k])
      [] store = "database" -> Cardinality(RowsOf(rate_limits, k))
      [] OTHER -> Len(rate_limit_storage[w][k])

\* C4: key independence: a step of a call for key a leaves the entries of
\* every other key as they were, in all three stores, and a call is
\* rejected only when its own key holds RATE_LIMIT_REQUESTS entries or more
\* in the store that decides it.
C4_KeyIndependence ==
    [][\A w \in Workers :
        Acts(w) =>
            LET a == req'[w].client_ip
            IN  /\ \A b \in Keys \ {a} :
                      /\ redis_zset'[b] = redis_zset[b]
                      /\ redis_expire_at'[b] = redis_expire_at[b]
                      /\ RowsOf(rate_limits', b) = RowsOf(rate_limits, b)
                      /\ \A v \in Workers : rate_limit_storage'[v][b]
                                                = rate_limit_storage[v][b]
                /\ (Returns(w) /\ ~req'[w].result) =>
                      OwnEntries(w, a, DecidedBy(req'[w]))
                          >= RATE_LIMIT_REQUESTS]_vars

\* key 1 has used its quota in the store that then admits a call for key 2
C4_Witness ==
    \E w \in Workers :
        /\ req[w].pc = "done" /\ req[w].client_ip = 2 /\ req[w].result
        /\ OwnEntries(w, 1, DecidedBy(req[w])) >= RATE_LIMIT_REQUESTS
        /\ AdmittedIn(1, 0, MaxTime) >= RATE_LIMIT_REQUESTS

\* C5: check_rate_limit is total: no exception leaves it, and a call whose
\* store raised (SessionLocal(), a query, the commit, the Redis pipeline)
\* has returned the answer of the in-memory store.
C5_Total ==
    \A w \in Workers :
        /\ req[w].pc # "raised"
        /\ Len(req[w].path) >= 2 =>
              /\ req[w].pc = "done"
              /\ DecidedBy(req[w]) = "memory"
              /\ req[w].result \in BOOLEAN

\* the database raised and the call returned the in-memory store's False
C5_Witness ==
    \E w \in Workers :
        /\ req[w].pc = "done" /\ ~req[w].result
        /\ req[w].path = <<"database", "memory">>
        /\ "database" \in failed_stores[w]

C7_NoReturnToFailedStore ==
    \A w \in Workers :
        /\ req[w].pc = "redis" => "redis" \notin failed_stores[w]
        /\ req[w].pc \in {"db_delete", "db_count", "db_commit"}
              => "database" \notin failed_stores[w]

\* C7 (amended): the selection is fixed at startup and no call changes it:
\* redis_client and SessionLocal keep their values, and every call, also
\* one that follows a failure, first consults the store selected at
\* startup; the in-memory store serves only the call whose store failed.
C7_SelectionFixedAtStartup ==
    [][/\ redis_client' = redis_client
       /\ SessionLocal' = SessionLocal
       /\ \A w \in Workers :
            Starts(w) => req'[w].path[1] = StartupChoice]_vars

\* after a Redis failure a later call of the process was decided by Redis
C7_Witness ==
    \E w \in Workers :
        /\ "redis" \in failed_stores[w]
        /\ req[w].pc = "done" /\ req[w].path = <<"redis">>

\* C8: the count check and the insertion are one atomic step: when a call
\* is admitted by Redis or the database, the key has at most
\* RATE_LIMIT_REQUESTS entries within the window in that store, in every
\* interleaving of the processes sharing it.
C8_AdmissionAtomic ==
    [][\A w \in Workers :
        (Returns(w) /\ req'[w].result) =>
            LET k == req'[w].client_ip
                lo == req'[w].current_time - RATE_LIMIT_WINDOW
            IN  /\ DecidedBy(req'[w]) = "redis" =>
                      Cardinality({s \in redis_zset'[k] : s >= lo})
                          <= RATE_LIMIT_REQUESTS
                /\ DecidedBy(req'[w]) = "database" =>
                      Cardinality({r \in RowsOf(rate_limits', k) :
                                      r.timestamp >= lo})
                          <= RATE_LIMIT_REQUESTS]_vars

\* C9: every call returns a decision, also when a round trip to Redis or
\* the database never completes.
C9_EveryCallReturns ==
    \A w \in Workers :
        (req[w].pc \in {"redis", "db_delete", "db_count", "db_commit"})
            ~> (req[w].pc = "done")

\* C10: the store selected at startup is Redis iff REDIS_URL is set and
\* from_url and ping succeeded, else the database iff DATABASE_URL is set
\* and engine and table creation succeeded, else memory; a call that met
\* no failure is decided by exactly that store.
C10_StartupSelection ==
    /\ redis_client <=> (env.REDIS_URL /\ env.redis = "ok")
    /\ SessionLocal <=> (env.DATABASE_URL /\ env.db = "ok")
    /\ \A w \in Workers :
          (req[w].pc = "done" /\ Len(req[w].path) = 1)
              => DecidedBy(req[w]) = StartupChoice

\* Redis was configured but its ping failed, and the database decided
C10_Witness ==
    \E w \in Workers :
        /\ env.REDIS_URL /\ env.redis = "raises"
        /\ env.DATABASE_URL /\ env.db = "ok"
        /\ req[w].pc = "done" /\ req[w].path = <<"database">> /\ req[w].result

\* the entries with timestamp s that a store holds for one key, given the
\* key's sorted set, rows and list
StoredAt(store, s, zset, rows, list) ==
    CASE store = "redis" -> IF s \in zset THEN 1 ELSE 0
      [] store = "database" -> Cardinality({r \in rows : r.timestamp = s})
      [] OTHER -> Len(SelectSeq(list, LAMBDA x : x = s))

\* the entries with timestamp lo or later that a store holds for one key
StoredFrom(store, lo, zset, rows, list) ==
    CASE store = "redis" -> Cardinality({x \in zset : x >= lo})
      [] store = "database" -> Cardinality({r \in rows : r.timestamp >= lo})
      [] OTHER -> Len(SelectSeq(list, LAMBDA x : x >= lo))

\* C11: expiry is strict: an entry whose timestamp is exactly
\* current_time - RATE_LIMIT_WINDOW is kept by the call and counted
\* towards the limit, in whichever store decides the call (stated for one
\* process, whose calls run one after the other).
C11_BoundaryEntryRetained ==
    [][\A w \in Workers :
        (Returns(w) /\ load.workers = {1}) =>
            LET c == req'[w]
                k == c.client_ip
                b == c.current_time - RATE_LIMIT_WINDOW
                store == DecidedBy(c)
            IN  StoredAt(store, b, redis_zset[k], RowsOf(rate_limits, k),
                         rate_limit_storage[w][k]) > 0
                => /\ StoredAt(store, b, redis_zset'[k],
                               RowsOf(rate_limits', k),
                               rate_limit_storage'[w][k]) > 0
                   /\ StoredFrom(store, b, redis_zset[k],
                                 RowsOf(rate_limits, k),
                                 rate_limit_storage[w][k])
                          >= RATE_LIMIT_REQUESTS => ~c.result]_vars

\* ------------------------------------------- calls made one after the other
\* One process, one client, no store failing: the calls of a run are made
\* one after the other at chosen times, on the store selected at startup,
\* with the limit and window of the worked scenario.
ScenarioLimit == 3
ScenarioWindow == 10
MaxScenarioCalls == 5
ScenarioTimes == {0, 1, 2, 3, 11}

\* check_rate_limit_redis when pipe.execute() succeeds (145-169)
RedisCall(zset, current_time, limit, window) ==
    LET p == RedisPipeline(zset, current_time, window)
    IN  [zset |-> p.zset, allowed |-> RedisAllowed(p.zcard, limit)]

\* check_rate_limit_database when no statement raises (176-207): on
\* rejection the session is closed without a commit, the delete is undone
DatabaseCall(table, ip, current_time, limit, window) ==
    LET deleted == {r.id : r \in DbExpired(table, ip, current_time, window)}
        current_count == DbCount(table, ip, deleted)
    IN  IF DbRejects(current_count, limit)
        THEN [table |-> table, allowed |-> FALSE]
        ELSE [table |-> DbCommit(table, deleted, NewId(table, deleted),
                                 ip, current_time),
              allowed |-> TRUE]

\* pipe.expire(key, window) (163): the key is gone once its deadline is reached
RedisKeyAt(zset, deadline, time) ==
    IF deadline # -1 /\ deadline <= time THEN {} ELSE zset

SeqInit ==
    /\ \E e \in Envs : Startup(e)
    /\ load = [workers |-> {1}, clients |-> {1}, budget |-> MaxScenarioCalls]
    /\ StoresEmpty
    /\ reachable = [redis |-> TRUE, db |-> TRUE]
    /\ health = NoHealth
    /\ request = NoRequest
    /\ client_key = None
    /\ http = HttpIdle
    /\ api_calls = 0
    /\ ui_history = <<>>
    /\ scn = [backend |-> Dispatch(redis_client, SessionLocal),
              times |-> <<>>, results |-> <<>>]
    /\ thread = [i \in Threads |-> ThreadIdle]

\* the clock reads t and check_rate_limit("1") runs to its return
sequential_call(t) ==
    /\ Len(scn.times) < load.budget
    /\ t >= now
    /\ now' = t
    /\ \/ /\ scn.backend = "redis"
          /\ LET c == RedisCall(RedisKeyAt(redis_zset[1], redis_expire_at[1], t),
                                t, ScenarioLimit, ScenarioWindow)
             IN  /\ redis_zset' = [redis_zset EXCEPT ![1] = c.zset]
                 /\ redis_expire_at' = [redis_expire_at EXCEPT
                                           ![1] = t + ScenarioWindow]
                 /\ scn' = [scn EXCEPT !.times = Append(@, t),
                                       !.results = Append(@, c.allowed)]
          /\ UNCHANGED <<rate_limits, rate_limit_storage>>
       \/ /\ scn.backend = "database"
          /\ LET c == DatabaseCall(rate_limits, 1, t, ScenarioLimit,
                                   ScenarioWindow)
             IN  /\ rate_limits' = c.table
                 /\ scn' = [scn EXCEPT !.times = Append(@, t),
                                       !.results = Append(@, c.allowed)]
          /\ UNCHANGED <<redis_zset, redis_expire_at, rate_limit_storage>>
       \/ /\ scn.backend = "memory"
          /\ LET c == MemoryCheck(rate_limit_storage[1][1], t, ScenarioLimit,
                                  ScenarioWindow)
             IN  /\ rate_limit_storage' =
                        [rate_limit_storage EXCEPT ![1][1] = c.list]
                 /\ scn' = [scn EXCEPT !.times = Append(@, t),
                                       !.results = Append(@, c.allowed)]
          /\ UNCHANGED <<redis_zset, redis_expire_at, rate_limits>>
    /\ UNCHANGED <<env, load, redis_client, SessionLocal, open_sessions, req,
                   calls, admitted, failed_stores, db_engine, reachable,
                   health, request, client_key, http, api_calls, ui_history,
                   thread>>

SeqNext == \E t \in ScenarioTimes : sequential_call(t)

SeqSpec == SeqInit /\ [][SeqNext]_vars

\* the worked scenario: the call times and the results it states
ScenarioCalls == <<0, 1, 2, 3, 11>>
ScenarioResults == <<TRUE, TRUE, TRUE, FALSE, TRUE>>

\* C12: with limit 3 and window 10, calls for one key at t = 0, 1, 2 return
\* True, the call at t = 3 returns False and the call at t = 11 returns
\* True, on the Redis, the database and the in-memory store alike.
C12_Scenario ==
    \A i \in 1..Len(ScenarioCalls) :
        (i <= Len(scn.times)
            /\ SubSeq(scn.times, 1, i) = SubSeq(ScenarioCalls, 1, i))
            => scn.results[i] = ScenarioResults[i]

\* the five calls of the scenario have run on Redis
C12_Witness ==
    /\ scn.backend = "redis"
    /\ scn.times = ScenarioCalls
    /\ scn.results = ScenarioResults

\* ------------------------------------------------ the endpoint handlers
\* One process serving requests of one client: a handler derives the key,
\* calls check_rate_limit and goes on according to what it returned.
MaxRequests == 2
UI_HISTORY_CAP == 20

Endpoints == {"/", "/api/generate", "/api/history", "/api/models",
              "/api/random-prompt", "/admin"}

\* a handler in which the check is missing from the generating endpoint
ChecksRateLimit_NotGenerate(endpoint) ==
    endpoint \in {"/", "/api/history", "/api/models", "/api/random-prompt"}

\* the handlers that begin with `if not check_rate_limit(client_ip)`
\* (406, 447, 760, 774, 831); admin_panel (489) does not
ChecksRateLimit(endpoint) ==
    endpoint \in {"/", "/api/generate", "/api/history", "/api/models",
                  "/api/random-prompt"}

\* the handlers that call call_cerebras_api (420, 464)
Generates(endpoint) == endpoint \in {"/", "/api/generate"}

\* ui_history.append(ui_entry); generate_random_ui then drops the oldest
\* entry beyond 20 (432-433), generate_custom_ui does not (475)
HistoryAppend(history, endpoint) ==
    LET h == Append(history, endpoint)
    IN  IF endpoint = "/" /\ Len(h) > UI_HISTORY_CAP THEN Tail(h) ELSE h

HttpInit ==
    /\ \E e \in Envs : Startup(e)
    /\ load = [workers |-> {1}, clients |-> {1}, budget |-> MaxRequests]
    /\ StoresEmpty
    /\ reachable = [redis |-> TRUE, db |-> TRUE]
    /\ health = NoHealth
    /\ request = NoRequest
    /\ client_key = None
    /\ http = HttpIdle
    /\ api_calls = 0
    /\ ui_history = <<>>
    /\ scn = NoScenario
    /\ thread = [i \in Threads |-> ThreadIdle]

\* a request for `endpoint` arrives from client ip; `valid` tells whether
\* the body of a POST /api/generate passes the checks at 454-460.  A
\* handler without the check answers at once.
handler_enter(endpoint, ip, valid) ==
    /\ http.pc \in {"idle", "responded"}
    /\ ip \in load.clients
    /\ endpoint # "/api/generate" => valid
    /\ ChecksRateLimit(endpoint) => calls < load.budget
    /\ http' = [pc |-> IF ChecksRateLimit(endpoint) THEN "check"
                       ELSE IF Generates(endpoint) THEN "generate"
                       ELSE "responded",
                endpoint |-> endpoint,
                status |-> IF ChecksRateLimit(endpoint) \/ Generates(endpoint)
                           THEN 0 ELSE 200,
                n |-> req[1].n, client_ip |-> ip, valid |-> valid]
    /\ UNCHANGED <<env, load, redis_client, SessionLocal, now, redis_zset,
                   redis_expire_at, rate_limits, open_sessions,
                   rate_limit_storage, req, calls, admitted, failed_stores,
                   db_engine, reachable, health, request, client_key,
                   api_calls, ui_history, scn, thread>>

\* the handler calls check_rate_limit(client_ip)
handler_check ==
    /\ http.pc = "check"
    /\ req[1].n = http.n
    /\ check_rate_limit(1, http.client_ip)

\* check_rate_limit has returned: `if not ...: raise HTTPException(429)`,
\* else the handler goes on: the body checks of generate_custom_ui (400),
\* the completion call, or the plain reply of the other endpoints
handler_gate ==
    /\ http.pc = "check"
    /\ req[1].n # http.n
    /\ req[1].pc = "done"
    /\ http' = IF ~req[1].result
               THEN [http EXCEPT !.pc = "responded", !.status = 429]
               ELSE IF ~http.valid
               THEN [http EXCEPT !.pc = "responded", !.status = 400]
               ELSE IF Generates(http.endpoint)
               THEN [http EXCEPT !.pc = "generate"]
               ELSE [http EXCEPT !.pc = "responded", !.status = 200]
    /\ UNCHANGED <<env, load, redis_client, SessionLocal, now, redis_zset,
                   redis_expire_at, rate_limits, open_sessions,
                   rate_limit_storage, req, calls, admitted, failed_stores,
                   db_engine, reachable, health, request, client_key,
                   api_calls, ui_history, scn, thread>>

\* html_content = await call_cerebras_api(...): the completion API is called
call_cerebras_api ==
    /\ http.pc = "generate"
    /\ http' = [http EXCEPT !.pc = "awaiting"]
    /\ api_calls' = api_calls + 1
    /\ UNCHANGED <<env, load, redis_client, SessionLocal, now, redis_zset,
                   redis_expire_at, rate_limits, open_sessions,
                   rate_limit_storage, req, calls, admitted, failed_stores,
                   db_engine, reachable, health, request, client_key,
                   ui_history, scn, thread>>

\* the completion arrives and the entry is stored, or call_cerebras_api
\* raises HTTPException(503): generate_random_ui catches it and returns the
\* fallback page (437-439), generate_custom_ui re-raises it (481-482)
handler_finish(completed) ==
    /\ http.pc = "awaiting"
    /\ IF completed
       THEN /\ ui_history' = HistoryAppend(ui_history, http.endpoint)
            /\ http' = [http EXCEPT !.pc = "responded", !.status = 200]
       ELSE /\ ui_history' = ui_history
            /\ http' = [http EXCEPT !.pc = "responded",
                           !.status = IF http.endpoint = "/" THEN 200 ELSE 503]
    /\ UNCHANGED <<env, load, redis_client, SessionLocal, now, redis_zset,
                   redis_expire_at, rate_limits, open_sessions,
                   rate_limit_storage, req, calls, admitted, failed_stores,
                   db_engine, reachable, health, request, client_key,
                   api_calls, scn, thread>>

HttpNext ==
    \/ Tick
    \/ \E endpoint \in Endpoints, ip \in Keys, valid \in BOOLEAN :
          handler_enter(endpoint, ip, valid)
    \/ handler_check
    \/ redis_execute(1)
    \/ redis_error(1)
    \/ db_delete(1)
    \/ db_count(1)
    \/ db_commit(1)
    \/ db_error(1)
    \/ backend_hang(1)
    \/ handler_gate
    \/ call_cerebras_api
    \/ \E completed \in BOOLEAN : handler_finish(completed)

HttpSpec == HttpInit /\ [][HttpNext]_vars

\* C13: on each of /, /api/generate, /api/history, /api/models and
\* /api/random-prompt a request whose check_rate_limit call returned False
\* is answered 429, and only then; the completion API is called and a
\* history entry is added only by a request whose check_rate_limit call
\* has returned True.
C13_HttpGating ==
    [][LET limited == {"/", "/api/generate", "/api/history", "/api/models",
                       "/api/random-prompt"}
           checked == /\ req[1].pc = "done"
                      /\ req[1].n # http.n
                      /\ req[1].client_ip = http.client_ip
       IN  /\ (http' # http /\ http'.status = 429)
                => /\ http.endpoint \in limited /\ http.pc = "check"
                   /\ checked /\ ~req[1].result
                   /\ api_calls' = api_calls /\ ui_history' = ui_history
           /\ (http' # http /\ http.endpoint \in limited
                 /\ http.pc = "check" /\ ~req[1].result)
                => http'.status = 429
           /\ (http'.endpoint \in limited
                 /\ http'.pc \in {"generate", "awaiting"})
                => (checked /\ req[1].result)
           /\ api_calls' # api_calls
                => /\ api_calls' = api_calls + 1
                   /\ http.endpoint \in limited
                         => (checked /\ req[1].result)
           /\ ui_history' # ui_history
                => (http.endpoint \in limited
                         => (checked /\ req[1].result))]_vars

\* the client's first POST /api/generate called the completion API and its
\* second one was answered 429
C13_Witness ==
    /\ http.endpoint = "/api/generate"
    /\ http.pc = "responded" /\ http.status = 429
    /\ api_calls = 1 /\ Len(ui_history) = 1
    /\ calls = 2

\* ------------------------------------------------------ GET /health
\* One process; after startup each server either answers or does not
\* (reachable), and stays so while calls and health checks are made.

\* redis_status (786-792): the ping is tried when redis_client is set
RedisStatus(rc, up) ==
    IF ~rc THEN "not_available"
    ELSE IF up THEN "connected" ELSE "disconnected"

\* db_status (794-802): SessionLocal(), db.execute("SELECT 1"), db.close()
\* inside try / bare except; `textual` tells whether the installed
\* SQLAlchemy lets Session.execute take a plain string
DatabaseStatus(sl, up, textual) ==
    IF ~sl THEN "not_available"
    ELSE IF up /\ textual THEN "connected" ELSE "disconnected"

\* storage_type (805-810)
StorageType(rc, redis_status, sl, db_status) ==
    IF rc /\ redis_status = "connected" THEN "redis"
    ELSE IF sl /\ db_status = "connected" THEN "database"
    ELSE "memory"

HealthInit ==
    /\ \E e \in Envs : Startup(e)
    /\ load = [workers |-> {1}, clients |-> {1}, budget |-> MaxRequests]
    /\ StoresEmpty
    /\ reachable \in [redis : BOOLEAN, db : BOOLEAN]
    /\ health = NoHealth
    /\ request = NoRequest
    /\ client_key = None
    /\ http = HttpIdle
    /\ api_calls = 0
    /\ ui_history = <<>>
    /\ scn = NoScenario
    /\ thread = [i \in Threads |-> ThreadIdle]

\* health_check (783-823)
health_check ==
    /\ \E textual \in BOOLEAN :
         LET redis_status == RedisStatus(redis_client, reachable.redis)
             db_status == DatabaseStatus(SessionLocal, reachable.db, textual)
         IN  health' = [redis_status |-> redis_status,
                        database_status |-> db_status,
                        storage_type |-> StorageType(redis_client, redis_status,
                                                     SessionLocal, db_status)]
    /\ UNCHANGED <<env, load, redis_client, SessionLocal, now, redis_zset,
                   redis_expire_at, rate_limits, open_sessions,
                   rate_limit_storage, req, calls, admitted, failed_stores,
                   db_engine, reachable, request, client_key, http,
                   api_calls, ui_history, scn, thread>>

\* a call is started; SessionLocal() itself makes no round trip
health_call == check_rate_limit(1, 1) /\ Len(req'[1].path) = 1

\* the round trips of the call succeed on a server that answers and raise
\* on one that does not
HealthNext ==
    \/ Tick
    \/ health_check
    \/ health_call
    \/ reachable.redis /\ redis_execute(1)
    \/ ~reachable.redis /\ redis_error(1)
    \/ reachable.db /\ db_delete(1)
    \/ reachable.db /\ db_count(1)
    \/ reachable.db /\ db_commit(1)
    \/ ~reachable.db /\ db_error(1)

HealthSpec == HealthInit /\ [][HealthNext]_vars

\* C14: the storage_type that GET /health reports is the store that decides
\* a check_rate_limit call made while the servers are reachable or not as
\* they were for the health check.
C14_HealthReportsDecider ==
    (health # NoHealth /\ req[1].pc = "done")
        => health.storage_type = DecidedBy(req[1])

\* ------------------------------------------------------ get_client_ip
\* Header values are strings, modelled as sequences of characters; None is
\* a header (or request.client) that is not there.
MaxLen == 3
Chars == {"a", "b", " ", ","}
Strings == UNION {[1..n -> Chars] : n \in 0..MaxLen}
Unknown == <<"unknown">>

\* Python truth of an optional string: None and "" are false
Truthy(v) == v # None /\ v # <<>>

\* str.split(",")[0]: what precedes the first comma
RECURSIVE FirstField(_)
FirstField(str) ==
    IF str = <<>> \/ Head(str) = "," THEN <<>>
    ELSE <<Head(str)>> \o FirstField(Tail(str))

\* str.strip(): leading and trailing blanks removed
RECURSIVE LStrip(_)
LStrip(str) ==
    IF str # <<>> /\ Head(str) = " " THEN LStrip(Tail(str)) ELSE str

RECURSIVE RStrip(_)
RStrip(str) ==
    IF str # <<>> /\ str[Len(str)] = " "
    THEN RStrip(SubSeq(str, 1, Len(str) - 1)) ELSE str

Strip(str) == LStrip(RStrip(str))

\* the first field returned as it stands, blanks included
GetClientIp_NoStrip(r) ==
    IF Truthy(r.forwarded_for) THEN FirstField(r.forwarded_for)
    ELSE IF Truthy(r.real_ip) THEN r.real_ip
    ELSE IF r.client # None THEN r.client ELSE Unknown

\* get_client_ip (232-245)
GetClientIp(r) ==
    IF Truthy(r.forwarded_for) THEN Strip(FirstField(r.forwarded_for))
    ELSE IF Truthy(r.real_ip) THEN r.real_ip
    ELSE IF r.client # None THEN r.client ELSE Unknown

\* the request metadata: X-Forwarded-For, X-Real-IP, the transport peer
Requests ==
    [forwarded_for : {None} \cup Strings,
     real_ip : {None, <<>>, <<"b">>, <<" ", "b">>},
     client : {None, <<"c">>}]

KeyInit ==
    /\ \E e \in Envs : Startup(e) /\ e.REDIS_URL /\ e.DATABASE_URL
                       /\ e.redis = "ok" /\ e.db = "ok"
    /\ load = [workers |-> {1}, clients |-> {1}, budget |-> 0]
    /\ StoresEmpty
    /\ reachable = [redis |-> TRUE, db |-> TRUE]
    /\ health = NoHealth
    /\ request \in Requests
    /\ client_key = None
    /\ http = HttpIdle
    /\ api_calls = 0
    /\ ui_history = <<>>
    /\ scn = NoScenario
    /\ thread = [i \in Threads |-> ThreadIdle]

\* client_ip = get_client_ip(request)
get_client_ip ==
    /\ client_key = None
    /\ client_key' = GetClientIp(request)
    /\ UNCHANGED <<env, load, redis_client, SessionLocal, now, redis_zset,
                   redis_expire_at, rate_limits, open_sessions,
                   rate_limit_storage, req, calls, admitted, failed_stores,
                   db_engine, reachable, health, request, http, api_calls,
                   ui_history, scn, thread>>

KeyNext == get_client_ip

KeySpec == KeyInit /\ [][KeyNext]_vars

\* C15 (as claimed): the key is the trimmed first comma-separated value of
\* X-Forwarded-For when that header is present, otherwise X-Real-IP when
\* present, otherwise the peer address, otherwise "unknown".
C15_PriorityWhenPresent ==
    client_key # None =>
        client_key =
            IF request.forwarded_for # None
            THEN Strip(FirstField(request.forwarded_for))
            ELSE IF request.real_ip # None THEN request.real_ip
            ELSE IF request.client # None THEN request.client
            ELSE Unknown

\* C15 (amended): a header counts only when it is present and not empty:
\* the key is the trimmed first comma-separated value of a non-empty
\* X-Forwarded-For, otherwise a non-empty X-Real-IP as it stands, otherwise
\* the peer address, otherwise "unknown"; it is a function of the request
\* metadata, and computing it changes nothing else.
C15_PriorityWhenNonEmpty ==
    [][client_key' # client_key =>
        /\ client_key' =
              IF request.forwarded_for \notin {None, <<>>}
              THEN Strip(FirstField(request.forwarded_for))
              ELSE IF request.real_ip \notin {None, <<>>} THEN request.real_ip
              ELSE IF request.client # None THEN request.client
              ELSE Unknown
        /\ UNCHANGED request
        /\ UNCHANGED <<env, load, redis_client, SessionLocal, now, redis_zset,
                       redis_expire_at, rate_limits, open_sessions,
                       rate_limit_storage, req, calls, admitted,
                       failed_stores, db_engine, reachable, health, http,
                       api_calls, ui_history, scn, thread>>]_vars

\* " a," in X-Forwarded-For wins over X-Real-IP and gives "a"
C15_Witness ==
    /\ request.forwarded_for = <<" ", "a", ",">>
    /\ request.real_ip = <<"b">>
    /\ client_key = <<"a">>

\* the stores that the call r has consulted or is consulting
Consulted(r) == {r.path[i] : i \in 1..Len(r.path)}

\* C16: a store whose startup initialisation raised is as if it were not
\* configured: its handles are None (redis_client; db_engine and
\* SessionLocal) and no call ever consults it.
C16_FailedStartupIsUnconfigured ==
    /\ (env.REDIS_URL /\ env.redis = "raises") =>
          /\ redis_client = InitRedisClient(FALSE, "ok")
          /\ ~redis_client
          /\ \A w \in Workers : "redis" \notin Consulted(req[w])
    /\ (env.DATABASE_URL /\ env.db = "raises") =>
          /\ SessionLocal = InitSessionLocal(FALSE, "ok")
          /\ db_engine = InitDbEngine(FALSE, "ok")
          /\ ~SessionLocal /\ ~db_engine
          /\ open_sessions = 0
          /\ \A w \in Workers : "database" \notin Consulted(req[w])

\* both stores were configured and both failed to start; the in-memory
\* store has decided a call
C16_Witness ==
    /\ env.REDIS_URL /\ env.redis = "raises"
    /\ env.DATABASE_URL /\ env.db = "raises"
    /\ \E w \in Workers :
          /\ req[w].pc = "done" /\ req[w].path = <<"memory">>
          /\ ~req[w].result

\* C17: a call that returns True raises the number of stored entries of its
\* key that are within the window by exactly one, also when an earlier
\* admitted call of the key carries the same timestamp (calls made one
\* after the other, no store failing).
C17_AdmissionAddsOne ==
    [][(Len(scn'.results) = Len(scn.results) + 1
            /\ scn'.results[Len(scn'.results)])
        => LET lo == now' - ScenarioWindow + 1
           IN  StoredFrom(scn.backend, lo, redis_zset'[1],
                          RowsOf(rate_limits', 1), rate_limit_storage'[1][1])
                 = StoredFrom(scn.backend, lo, redis_zset[1],
                              RowsOf(rate_limits, 1), rate_limit_storage[1][1])
                   + 1]_vars

\* C18: the entries a call counts are never older than its window: at the
\* step in which a store takes the count for a call with timestamp t, every
\* entry of the key that is counted has a timestamp of t - RATE_LIMIT_WINDOW
\* or later (the memory list and the Redis set after their clean-up, the
\* rows the session's count query reads).
C18_NoExpiredEntryCounted ==
    [][\A w \in Workers :
        Acts(w) =>
            LET c == req'[w]
                k == c.client_ip
                lo == c.current_time - RATE_LIMIT_WINDOW
            IN  /\ (c.pc = "done" /\ DecidedBy(c) = "memory") =>
                      \A i \in 1..Len(rate_limit_storage'[w][k]) :
                          rate_limit_storage'[w][k][i] >= lo
                /\ (req[w].pc = "redis" /\ c.pc = "done"
                        /\ DecidedBy(c) = "redis") =>
                      \A s \in redis_zset'[k] : s >= lo
                /\ (req[w].pc = "db_count" /\ c.pc \in {"db_commit", "done"}
                        /\ DecidedBy(c) = "database") =>
                      \A r \in RowsOf(rate_limits, k) :
                          r.id \notin req[w].deleted => r.timestamp >= lo]_vars


\* ---------------------------------------------------------------- C19
\* the call is between SessionLocal() (179) and the finally block (206-207)
InDatabase(call) ==
    \/ call.pc \in {"db_delete", "db_count", "db_commit"}
    \/ call.pc = "blocked" /\ call.path = <<"database">>

\* C19: every session the database path opened is closed when the call
\* leaves it, whether it admitted, rejected or raised in the delete, the
\* count or the commit: the sessions open are exactly those of the calls
\* still inside the database path, so none is open once every call has
\* returned; and the step that rejects leaves the table as it was.
C19_SessionsClosed ==
    /\ [](open_sessions = Cardinality({w \in Workers : InDatabase(req[w])}))
    /\ []((\A w \in Workers : req[w].pc \in {"idle", "done", "raised"})
            => open_sessions = 0)
    /\ [][\A w \in Workers :
            (req[w].pc = "db_count" /\ req'[w].pc = "done"
                /\ DecidedBy(req'[w]) = "database" /\ ~req'[w].result)
            => rate_limits' = rate_limits]_vars

\* a database call was rejected, another one raised and fell back to memory,
\* a row was committed, every call has returned and no session is open
C19_Witness ==
    /\ \A w \in Workers : req[w].pc \in {"idle", "done", "raised"}
    /\ \E w \in Workers :
          /\ req[w].pc = "done" /\ DecidedBy(req[w]) = "database"
          /\ ~req[w].result
    /\ \E w \in Workers : "database" \in failed_stores[w]
    /\ rate_limits # {}
    /\ open_sessions = 0


\* ================================================================ C20
\* check_rate_limit_memory (214-229) run by two threads of one process on
\* the same key.  The function takes no lock and rate_limit_storage (130) is
\* a plain defaultdict, so a thread can be switched out between building the
\* filtered list and storing it, between the store and the length test, and
\* between the length test and the append.
ThreadInit ==
    /\ Startup([REDIS_URL |-> FALSE, redis |-> "ok",
                DATABASE_URL |-> FALSE, db |-> "ok"])
    /\ load = [workers |-> {1}, clients |-> {1}, budget |-> MaxCalls]
    /\ StoresEmpty
    /\ reachable = [redis |-> TRUE, db |-> TRUE]
    /\ health = NoHealth
    /\ request = NoRequest
    /\ client_key = None
    /\ http = HttpIdle
    /\ api_calls = 0
    /\ ui_history = <<>>
    /\ scn = NoScenario
    /\ thread = [i \in Threads |-> ThreadIdle]

\* what a step of a thread leaves alone besides the list and the counters
ThreadFrame ==
    UNCHANGED <<env, load, redis_client, SessionLocal, now, redis_zset,
                redis_expire_at, rate_limits, open_sessions, req,
                failed_stores, db_engine, reachable, health, request,
                client_key, http, api_calls, ui_history, scn>>

\* check_rate_limit reads time.time() (135) and, no store being configured,
\* calls check_rate_limit_memory(client_ip, current_time) (142)
thread_enter(i, ip) ==
    /\ thread[i].pc = "idle"
    /\ ip \in load.clients
    /\ calls < load.budget
    /\ calls' = calls + 1
    /\ thread' = [thread EXCEPT ![i] = [pc |-> "filter", client_ip |-> ip,
                                        current_time |-> now,
                                        kept |-> <<>>, result |-> FALSE]]
    /\ UNCHANGED <<rate_limit_storage, admitted>>
    /\ ThreadFrame

\* the list comprehension (217-221) builds a new list from the stored one
thread_filter(i) ==
    /\ thread[i].pc = "filter"
    /\ thread' = [thread EXCEPT
            ![i].pc = "assign",
            ![i].kept = MemoryFilter(rate_limit_storage[1][thread[i].client_ip],
                                     thread[i].current_time,
                                     RATE_LIMIT_WINDOW)]
    /\ UNCHANGED <<rate_limit_storage, calls, admitted>>
    /\ ThreadFrame

\* rate_limit_storage[client_ip] = <the new list> (217)
thread_assign(i) ==
    /\ thread[i].pc = "assign"
    /\ rate_limit_storage' = [rate_limit_storage EXCEPT
                                 ![1][thread[i].client_ip] = thread[i].kept]
    /\ thread' = [thread EXCEPT ![i].pc = "check", ![i].kept = <<>>]
    /\ UNCHANGED <<calls, admitted>>
    /\ ThreadFrame

\* if len(rate_limit_storage[client_ip]) >= RATE_LIMIT_REQUESTS: return False
\* (224-225)
thread_check(i) ==
    /\ thread[i].pc = "check"
    /\ IF Len(rate_limit_storage[1][thread[i].client_ip]) >= RATE_LIMIT_REQUESTS
       THEN thread' = [thread EXCEPT ![i] = ThreadIdle]
       ELSE thread' = [thread EXCEPT ![i].pc = "append"]
    /\ UNCHANGED <<rate_limit_storage, calls, admitted>>
    /\ ThreadFrame

\* rate_limit_storage[client_ip].append(current_time); return True (228-229)
thread_append(i) ==
    /\ thread[i].pc = "append"
    /\ rate_limit_storage' = [rate_limit_storage EXCEPT
            ![1][thread[i].client_ip] = Append(@, thread[i].current_time)]
    /\ admitted' = [admitted EXCEPT
            ![thread[i].client_ip][thread[i].current_time] = @ + 1]
    /\ thread' = [thread EXCEPT ![i] = [ThreadIdle EXCEPT !.result = TRUE]]
    /\ UNCHANGED calls
    /\ ThreadFrame

ThreadNext ==
    \/ Tick
    \/ \E i \in Threads, ip \in Keys : thread_enter(i, ip)
    \/ \E i \in Threads : thread_filter(i)
    \/ \E i \in Threads : thread_assign(i)
    \/ \E i \in Threads : thread_check(i)
    \/ \E i \in Threads : thread_append(i)

ThreadSpec == ThreadInit /\ [][ThreadNext]_vars

\* how many times timestamp s is in the list
Occurrences(list, s) == Cardinality({j \in 1..Len(list) : list[j] = s})

\* C20: two threads running check_rate_limit_memory for one key exclude each
\* other: every admitted call whose timestamp is still inside the window is
\* in the key's list, and no window of RATE_LIMIT_WINDOW seconds holds more
\* than RATE_LIMIT_REQUESTS admitted calls.
C20_MemoryMutualExclusion ==
    \A k \in load.clients :
        /\ \A s \in Times :
              now - s < RATE_LIMIT_WINDOW =>
                  Occurrences(rate_limit_storage[1][k], s) >= admitted[k][s]
        /\ \A s \in Times :
              AdmittedIn(k, s - RATE_LIMIT_WINDOW + 1, s) <= RATE_LIMIT_REQUESTS


\* ================================================================ C21
\* the call is inside pipe.execute() (165) or a database query or commit
\* (183-203): synchronous client calls made from an `async def` handler
\* (400, 406) without await or executor, on the process's one event loop
WaitingOnBackend(call) ==
    call.pc \in {"redis", "db_delete", "db_count", "db_commit"}

\* C21: while one request's call waits on a Redis or database round trip, a
\* request for another key can still be accepted: some serving process can
\* start check_rate_limit for it.
C21_SlowCallDoesNotStall ==
    \A w \in load.workers :
        (WaitingOnBackend(req[w]) /\ calls < load.budget) =>
            \A ip \in load.clients \ {req[w].client_ip} :
                \E v \in load.workers : ENABLED check_rate_limit(v, ip)


\* ================================================================ C22
\* ui_history after n successful requests to / (429-433)
RECURSIVE HistoryAfter(_)
HistoryAfter(n) ==
    IF n = 0 THEN <<>> ELSE HistoryAppend(HistoryAfter(n - 1), "/")

\* the process has served some successful requests to / and no store is
\* configured; the limiter starts afresh
HistoryInit ==
    /\ Startup([REDIS_URL |-> FALSE, redis |-> "ok",
                DATABASE_URL |-> FALSE, db |-> "ok"])
    /\ load = [workers |-> {1}, clients |-> {1}, budget |-> MaxRequests]
    /\ StoresEmpty
    /\ reachable = [redis |-> TRUE, db |-> TRUE]
    /\ health = NoHealth
    /\ request = NoRequest
    /\ client_key = None
    /\ http = HttpIdle
    /\ api_calls = 0
    /\ \E n \in 0..(UI_HISTORY_CAP + 1) : ui_history = HistoryAfter(n)
    /\ scn = NoScenario
    /\ thread = [i \in Threads |-> ThreadIdle]

HistoryNext ==
    \/ Tick
    \/ \E endpoint \in Endpoints, ip \in Keys, valid \in BOOLEAN :
          handler_enter(endpoint, ip, valid)
    \/ handler_check
    \/ handler_gate
    \/ call_cerebras_api
    \/ \E completed \in BOOLEAN : handler_finish(completed)

HistorySpec == HistoryInit /\ [][HistoryNext]_vars

\* C22: ui_history never holds more than 20 entries, whatever successful
\* requests to / and /api/generate were served.
C22_HistoryAtMostCap == Len(ui_history) <= UI_HISTORY_CAP


\* ================================================================ C23
\* the calls of the sequence made at time s that returned True
AdmittedCallsAt(s) ==
    {i \in 1..Len(scn.times) : scn.times[i] = s /\ scn.results[i]}

\* C23: after any sequence of check_rate_limit_memory calls made one after
\* the other at non-decreasing times, the key's list holds at most the limit
\* of timestamps, each of them once per call at that time that returned
\* True at most, in non-decreasing order.
C23_MemoryListShape ==
    scn.backend = "memory" =>
        LET list == rate_limit_storage[1][1]
        IN  /\ Len(list) <= ScenarioLimit
            /\ \A s \in ScenarioTimes :
                  Occurrences(list, s) <= Cardinality(AdmittedCallsAt(s))
            /\ \A j \in 1..Len(list) : list[j] \in ScenarioTimes
            /\ \A i, j \in 1..Len(list) : i < j => list[i] <= list[j]

\* three calls were admitted at different times and fill the list, and the
\* next call, inside the window, was rejected and left no timestamp
C23_Witness ==
    /\ scn.backend = "memory"
    /\ scn.times = <<0, 1, 2, 3>>
    /\ scn.results = <<TRUE, TRUE, TRUE, FALSE>>
    /\ rate_limit_storage[1][1] = <<0, 1, 2>>

====
